---- MODULE Spec2Model ----
(***************************************************************************)
(* Model of the measurement record readers of                              *)
(* src/src/io/measure_record_reader.cc (formats 01, B8, HITS, R8, DETS)    *)
(* and of RareErrorIterator of src/src/probability_util.cc.                *)
(*                                                                         *)
(* A reader is a record holding the fields of the C++ object together with *)
(* `off`, the number of bytes already taken from the FILE it borrows.      *)
(* Every method is an operator from a reader state to a result record      *)
(*   [s |-> state after the call, ret |-> returned value,                  *)
(*    err |-> the exception raised (NoError when none),                    *)
(*    data |-> the caller's buffer after the call (read_bytes only)].      *)
(* A C++ bool is written 0 / 1, as `uint8_t(read_bit()) << k` reads it.    *)
(* Characters are their ASCII codes, as getc returns them.                 *)
(***************************************************************************)
EXTENDS Integers, Sequences, FiniteSets, TLC

VARIABLES
    fmt,              \* SampleFormat the reader was made for
    bits_per_record,  \* MeasureRecordReader::bits_per_record
    input,            \* the whole content of the FILE, a sequence of bytes
    sent,             \* the records the stream was encoded from (<<>> for a raw stream)
    rd,               \* the reader object (its fields and its FILE offset)
    pre,              \* the reader object before the last call
    last,             \* the last call: [op, ret, err, data]
    rec,              \* number of next_record() calls that returned true
    nread,            \* successful read_bit() calls on the current record
    nexts,            \* next_record() calls made on a single-record format
    eos,              \* a next_record() call has returned false
    n_detection_events,     \* argument of MeasureRecordReader::make
    n_logical_observables,  \* argument of MeasureRecordReader::make
    char_signed,      \* whether plain char is a signed type in this build
    probability,      \* argument of RareErrorIterator's constructor, in tenths
    it                \* the RareErrorIterator object

vars == <<fmt, bits_per_record, input, sent, rd, pre, last, rec, nread, nexts, eos,
          n_detection_events, n_logical_observables, char_signed, probability, it>>

\* What no call changes: the arguments of the constructors and the build.
env == <<fmt, bits_per_record, input, sent,
         n_detection_events, n_logical_observables, char_signed, probability>>

----------------------------------------------------------------------------
(* Bounds of the model.                                                    *)

MaxBits01 == 3      \* largest bits_per_record of a 01 reader
MaxLen01 == 4       \* longest 01 stream
MaxBitsB8 == 10     \* largest bits_per_record of a B8 reader
MaxLenB8 == 2       \* longest raw B8 stream, in bytes
MaxPackB8 == 9      \* longest bit sequence packed into a B8 stream
MaxBitsR8 == 9      \* largest bits_per_record of an R8 reader
MaxLenR8 == 3       \* longest R8 stream, in bytes
MaxBitsHits == 4    \* largest bits_per_record of a HITS reader on a raw stream
MaxBitsEnc == 3     \* largest bits_per_record of a HITS reader on an encoded stream
MaxLenHits == 4     \* longest raw HITS stream
MaxRecsHits == 2    \* most records of an encoded HITS stream
MaxHitsPerRec == 2  \* most indices of one encoded HITS record
MaxBuf == 2         \* largest read_bytes buffer, in bytes
MaxRunR8 == 2       \* longest short zero-run of an R8 descriptor stream
MaxRunsR8 == 3      \* most run descriptors of an R8 descriptor stream
MaxNext == 1        \* most next_record() calls on a single-record format (B8, R8)
MaxBitsDets == 2    \* largest bits_per_record of a DETS reader on a raw stream
MaxLenDets == 3     \* longest raw DETS stream after its first word
MaxBitsDetsEnc == 3 \* largest bits_per_record of a DETS reader on an encoded stream
MaxRecsDets == 2    \* most records of an encoded DETS stream of M tokens
MaxRecsTyped == 1   \* most records of an encoded DETS stream of M and D tokens
MaxShotsPerRec == 2 \* most tokens of one encoded DETS record
MaxGap == 2         \* largest gap the geometric distribution is let draw
MaxPosition == 12   \* largest position RareErrorIterator::next is let return

----------------------------------------------------------------------------
(* Characters and exceptions.                                              *)

EOF == -1
NL == 10            \* '\n'
COMMA == 44         \* ','
CH0 == 48           \* '0'
CH1 == 49           \* '1'
SPACE == 32         \* ' '
CHM == 77           \* 'M'
CHD == 68           \* 'D'
CHL == 76           \* 'L'
Shot == <<115, 104, 111, 116>>   \* "shot"
SSIZE_MAX == 2147483647          \* <limits.h>, where ssize_t has 32 bits

NoError == "none"
EndOfRecord == "Attempt to read past end-of-record"
EndOfFile == "Attempt to read past end-of-file"
Expected01 == "Expected '0' or '1' because input format was specified as '01'"
RecordTooLong == "Record too long"
UnexpectedCharacter == "Unexpected character"
InvalidSeparator == "Invalid separator character"
HitInThePast == "New hit is in the past"
HitOutside == "New hit is outside record size"
KeywordNotFound == "Failed to find expected string"
NeedShot == "Need a \"shot\" to begin record"
UnknownResultType == "Unknown result type"
FailedToParse == "Failed to parse input"
UnexpectedSeparator == "Unexpected separator"
ShotInThePast == "New shot is in the past of its position"
ShotOutside == "New shot is outside record size"
OnlyDetsDetectionEvents == "Only DETS format support detection event records"
OnlyDetsObservables == "Only DETS format support logical observable records"
Ptb64Incompatible == "SAMPLE_FORMAT_PTB64 incompatible with SingleMeasurementRecord"
FormatNotRecognized == "Sample format not recognized by SingleMeasurementRecord"
RecordTooBig == "Record size is too big"
InvalidProbability == "Invalid probability."

Min(a, b) == IF a < b THEN a ELSE b

Pow2(k) == 2 ^ k

Ok(s, ret) == [s |-> s, ret |-> ret, err |-> NoError, data |-> <<>>]

Throw(s, msg) == [s |-> s, ret |-> 0, err |-> msg, data |-> <<>>]

Bool(b) == IF b THEN 1 ELSE 0

\* The element of a set of one element: Only({F(x) : x \in {e}}) is F(e) with e
\* evaluated once.
Only(S) == CHOOSE x \in S : TRUE

\* getc(in): the next byte of the stream, or EOF once it is exhausted.
getc(s) ==
    IF s.off < Len(input)
    THEN [c |-> input[s.off + 1], s |-> [s EXCEPT !.off = @ + 1]]
    ELSE [c |-> EOF, s |-> s]

isdigit(c) == c >= CH0 /\ c <= CH0 + 9

\* The loop of read_unsigned_int: value and next are the out-parameters.
RECURSIVE read_digits(_, _, _)
read_digits(s, value, next) ==
    IF isdigit(next)
    THEN LET g == getc(s) IN read_digits(g.s, value * 10 + (next - CH0), g.c)
    ELSE [s |-> s, ok |-> TRUE, value |-> value, next |-> next]

\* read_unsigned_int(in, value, next); `value` is left alone when it fails.
read_unsigned_int(s, value) ==
    LET g == getc(s) IN
    IF ~isdigit(g.c)
    THEN [s |-> g.s, ok |-> FALSE, value |-> value, next |-> g.c]
    ELSE read_digits(g.s, 0, g.c)

\* while (i < keyword.size() && next == (int)keyword[i++]) next = getc(in);
\* i counts the comparisons made, the failed one included.
RECURSIVE keyword_loop(_, _, _, _)
keyword_loop(s, keyword, i, next) ==
    IF i < Len(keyword)
    THEN IF next = keyword[i + 1]
         THEN Only({keyword_loop(g.s, keyword, i + 1, g.c) : g \in {getc(s)}})
         ELSE [s |-> s, i |-> i + 1, next |-> next]
    ELSE [s |-> s, i |-> i, next |-> next]

\* maybe_consume_keyword(in, keyword, next): ok is the bool it returns.
maybe_consume_keyword(s, keyword) ==
    LET g == getc(s) IN
    IF g.c = EOF THEN [s |-> g.s, ok |-> FALSE, next |-> g.c, err |-> NoError]
    ELSE LET Looped(l) ==
                 IF l.i # Len(keyword)
                 THEN [s |-> l.s, ok |-> FALSE, next |-> l.next, err |-> KeywordNotFound]
                 ELSE [s |-> l.s, ok |-> TRUE, next |-> l.next, err |-> NoError]
         IN  Only({Looped(l) : l \in {keyword_loop(g.s, keyword, 0, g.c)}})

\* The value a char holds after `char c = getc(in)`: -128 .. 127 where char is
\* signed, 0 .. 255 where it is not (EOF, -1, becomes 255 there).
to_char(c) ==
    IF char_signed THEN (IF c >= 128 THEN c - 256 ELSE c)
    ELSE (IF c < 0 THEN c + 256 ELSE c)

----------------------------------------------------------------------------
(* The object right after its member initialisers, before any constructor  *)
(* body has run.                                                           *)

Fields ==
    [variant |-> "MeasureRecordReader",
     off |-> 0, position |-> 0,
     payload |-> 0, bits_available |-> 0,
     separator |-> 0, next_hit |-> -1,
     next_shot |-> -1, result_type |-> CHM,
     run_length_0s |-> 0, run_length_1s |-> 0,
     generated_0s |-> 0, generated_1s |-> 1]

----------------------------------------------------------------------------
(* 01 format                                                               *)

Format01_ctor ==
    LET g == getc([Fields EXCEPT !.variant = "MeasureRecordReaderFormat01"])
    IN  [g.s EXCEPT !.payload = g.c]

Format01_read_bit(s) ==
    IF s.payload = EOF THEN Throw(s, EndOfFile)
    ELSE IF s.payload = NL \/ s.position >= bits_per_record THEN Throw(s, EndOfRecord)
    ELSE IF s.payload # CH0 /\ s.payload # CH1 THEN Throw(s, Expected01)
    ELSE LET g == getc(s) IN
         Ok([g.s EXCEPT !.payload = g.c, !.position = @ + 1], Bool(s.payload = CH1))

\* while (payload != EOF && payload != '\n' && ++position < bits_per_record) payload = getc(in);
RECURSIVE Format01_skip(_)
Format01_skip(s) ==
    IF s.payload = EOF \/ s.payload = NL THEN s
    ELSE LET s1 == [s EXCEPT !.position = @ + 1] IN
         IF s1.position < bits_per_record
         THEN LET g == getc(s1) IN Format01_skip([g.s EXCEPT !.payload = g.c])
         ELSE s1

Format01_next_record(s) ==
    LET Skipped(s1) ==
            IF s1.position > bits_per_record THEN Throw(s1, RecordTooLong)
            ELSE LET g == getc([s1 EXCEPT !.position = 0]) IN
                 Ok([g.s EXCEPT !.payload = g.c], Bool(g.c # EOF))
    IN  Skipped(Format01_skip(s))

Format01_is_end_of_record(s) ==
    Ok(s, Bool(s.payload = EOF \/ s.payload = NL \/ s.position >= bits_per_record))

----------------------------------------------------------------------------
(* B8 format                                                               *)

FormatB8_ctor == [Fields EXCEPT !.variant = "MeasureRecordReaderFormatB8"]

FormatB8_maybe_update_payload(s) ==
    IF s.bits_available > 0 THEN s
    ELSE LET g == getc(s) IN
         [g.s EXCEPT !.payload = g.c,
                     !.bits_available = IF g.c # EOF THEN 8 ELSE @]

\* FormatB8_read_bit taking the bits of a byte from the top: MSB-first.
FormatB8_read_bit_msb(s) ==
    IF s.position >= bits_per_record THEN Throw(s, EndOfRecord)
    ELSE LET Updated(s1) ==
                 IF s1.payload = EOF THEN Throw(s1, EndOfFile)
                 ELSE Ok([s1 EXCEPT !.payload = (@ * 2) % 256,
                                    !.bits_available = @ - 1,
                                    !.position = @ + 1],
                         s1.payload \div 128)
         IN  Updated(FormatB8_maybe_update_payload(s))

FormatB8_read_bit(s) ==
    IF s.position >= bits_per_record THEN Throw(s, EndOfRecord)
    ELSE LET Updated(s1) ==
                 IF s1.payload = EOF THEN Throw(s1, EndOfFile)
                 ELSE Ok([s1 EXCEPT !.payload = @ \div 2,
                                    !.bits_available = @ - 1,
                                    !.position = @ + 1],
                         s1.payload % 2)
         IN  Updated(FormatB8_maybe_update_payload(s))

\* FormatB8_is_end_of_record throwing away the byte it fetched.
FormatB8_is_end_of_record_dropping(s) ==
    LET Updated(s1) ==
            Ok([s1 EXCEPT !.bits_available = 0],
               Bool((s1.bits_available = 0 /\ s1.payload = EOF)
                    \/ s1.position >= bits_per_record))
    IN  Updated(FormatB8_maybe_update_payload(s))

FormatB8_is_end_of_record(s) ==
    LET Updated(s1) ==
            Ok(s1, Bool((s1.bits_available = 0 /\ s1.payload = EOF)
                        \/ s1.position >= bits_per_record))
    IN  Updated(FormatB8_maybe_update_payload(s))

----------------------------------------------------------------------------
(* Hits format                                                             *)

\* FormatHits_update_next_hit without its test against the record size.
FormatHits_update_next_hit_unbounded(s) ==
    LET Stored(ok, s1) ==
            IF ~ok
            THEN IF s1.separator # NL /\ s1.separator # EOF
                 THEN Throw(s1, UnexpectedCharacter)
                 ELSE Ok(s1, 0)
            ELSE IF s1.separator # COMMA /\ s1.separator # NL
            THEN Throw(s1, InvalidSeparator)
            ELSE IF s1.next_hit < s1.position THEN Throw(s1, HitInThePast)
            ELSE Ok(s1, 0)
        Parsed(r) == Stored(r.ok, [r.s EXCEPT !.next_hit = r.value, !.separator = r.next])
    IN  Parsed(read_unsigned_int(s, s.next_hit))

FormatHits_update_next_hit(s) ==
    LET Stored(ok, s1) ==
            IF ~ok
            THEN IF s1.separator # NL /\ s1.separator # EOF
                 THEN Throw(s1, UnexpectedCharacter)
                 ELSE Ok(s1, 0)
            ELSE IF s1.separator # COMMA /\ s1.separator # NL
            THEN Throw(s1, InvalidSeparator)
            ELSE IF s1.next_hit < s1.position THEN Throw(s1, HitInThePast)
            ELSE IF s1.next_hit >= bits_per_record THEN Throw(s1, HitOutside)
            ELSE Ok(s1, 0)
        Parsed(r) == Stored(r.ok, [r.s EXCEPT !.next_hit = r.value, !.separator = r.next])
    IN  Parsed(read_unsigned_int(s, s.next_hit))

\* The constructor runs update_next_hit(); what it throws leaves no reader.
FormatHits_ctor ==
    FormatHits_update_next_hit([Fields EXCEPT !.variant = "MeasureRecordReaderFormatHits"])

\* FormatHits_read_bit pulling the next hit one position early (>= for >).
FormatHits_read_bit_early(s) ==
    IF s.position >= bits_per_record THEN Throw(s, EndOfRecord)
    ELSE LET Updated(u) ==
                 IF u.err # NoError THEN u
                 ELSE Ok([u.s EXCEPT !.position = @ + 1],
                         Bool(u.s.next_hit = u.s.position))
         IN  Updated(IF s.position >= s.next_hit /\ s.separator = COMMA
                     THEN FormatHits_update_next_hit(s)
                     ELSE Ok(s, 0))

FormatHits_read_bit(s) ==
    IF s.position >= bits_per_record THEN Throw(s, EndOfRecord)
    ELSE LET Updated(u) ==
                 IF u.err # NoError THEN u
                 ELSE Ok([u.s EXCEPT !.position = @ + 1],
                         Bool(u.s.next_hit = u.s.position))
         IN  Updated(IF s.position > s.next_hit /\ s.separator = COMMA
                     THEN FormatHits_update_next_hit(s)
                     ELSE Ok(s, 0))

\* while (separator == ',') update_next_hit();
RECURSIVE FormatHits_drain(_)
FormatHits_drain(s) ==
    IF s.separator = COMMA
    THEN LET Updated(u) == IF u.err # NoError THEN u ELSE FormatHits_drain(u.s)
         IN  Updated(FormatHits_update_next_hit(s))
    ELSE Ok(s, 0)

FormatHits_next_record(s) ==
    LET Updated(u) ==
            IF u.err # NoError THEN u
            ELSE Ok(u.s, Bool(u.s.separator # EOF))
        Drained(d) ==
            IF d.err # NoError THEN d
            ELSE Updated(FormatHits_update_next_hit(
                             [d.s EXCEPT !.next_hit = -1, !.position = 0]))
    IN  Drained(FormatHits_drain(s))

----------------------------------------------------------------------------
(* R8 format                                                               *)

\* while (r == 0xFF) { run_length_0s += 0xFF; r = getc(in); }
RECURSIVE FormatR8_run_loop(_, _, _)
FormatR8_run_loop(s, r, run) ==
    IF r = 255
    THEN LET g == getc(s) IN FormatR8_run_loop(g.s, g.c, run + 255)
    ELSE [s |-> s, r |-> r, run |-> run]

\* Returns [s, ok]: ok is the bool update_run_length returns.
FormatR8_update_run_length(s) ==
    LET g == getc(s) IN
    IF g.c = EOF THEN [s |-> g.s, ok |-> FALSE]
    ELSE LET Run(l) ==
                 [s |-> [l.s EXCEPT !.run_length_0s =
                                        IF l.r > 0 THEN l.run + l.r ELSE l.run,
                                    !.run_length_1s = 1,
                                    !.generated_0s = 0,
                                    !.generated_1s = 0],
                  ok |-> TRUE]
         IN  Run(FormatR8_run_loop(g.s, g.c, 0))

\* FormatR8_ctor without run_length_1s = 0.
FormatR8_ctor_keeps_one ==
    FormatR8_update_run_length(
        [Fields EXCEPT !.variant = "MeasureRecordReaderFormatR8"]).s

FormatR8_ctor ==
    [FormatR8_update_run_length(
         [Fields EXCEPT !.variant = "MeasureRecordReaderFormatR8"]).s
        EXCEPT !.run_length_1s = 0]

FormatR8_read_bit(s) ==
    IF s.position >= bits_per_record THEN Throw(s, EndOfRecord)
    ELSE IF s.generated_1s < s.run_length_1s
    THEN Ok([s EXCEPT !.generated_1s = @ + 1, !.position = @ + 1], 1)
    ELSE IF s.generated_0s < s.run_length_0s
    THEN Ok([s EXCEPT !.generated_0s = @ + 1, !.position = @ + 1], 0)
    ELSE LET Updated(u) ==
                 IF ~u.ok THEN Throw(u.s, EndOfFile)
                 ELSE Ok([u.s EXCEPT !.generated_1s = @ + 1, !.position = @ + 1], 1)
         IN  Updated(FormatR8_update_run_length(s))

FormatR8_is_end_of_record(s) ==
    IF s.position >= bits_per_record THEN Ok(s, 1)
    ELSE IF s.generated_0s < s.run_length_0s THEN Ok(s, 0)
    ELSE IF s.generated_1s < s.run_length_1s THEN Ok(s, 0)
    ELSE LET Updated(u) == Ok(u.s, Bool(~u.ok))
         IN  Updated(FormatR8_update_run_length(s))

----------------------------------------------------------------------------
(* DETS format                                                             *)

\* FormatDets_update_next_shot taking every index as an absolute position.
FormatDets_update_next_shot_absolute(s) ==
    LET Checked(s1) ==
            IF s1.next_shot < s1.position THEN Throw(s1, ShotInThePast)
            ELSE IF s1.next_shot >= bits_per_record THEN Throw(s1, ShotOutside)
            ELSE Ok(s1, 0)
        Parsed(r, next_result_type) ==
            IF ~r.ok THEN Throw([r.s EXCEPT !.separator = r.next], FailedToParse)
            ELSE IF r.next # SPACE /\ r.next # NL
            THEN Throw([r.s EXCEPT !.separator = r.next, !.next_shot = r.value],
                       UnexpectedSeparator)
            ELSE IF next_result_type # r.s.result_type
            THEN Checked([r.s EXCEPT !.separator = r.next,
                                     !.next_shot = r.value,
                                     !.result_type = next_result_type])
            ELSE Checked([r.s EXCEPT !.separator = r.next, !.next_shot = r.value])
        Typed(g, next_result_type) ==
            IF next_result_type = EOF THEN Ok([g.s EXCEPT !.separator = EOF], 0)
            ELSE IF next_result_type # CHM /\ next_result_type # CHD
                    /\ next_result_type # CHL
            THEN Throw(g.s, UnknownResultType)
            ELSE Only({Parsed(r, next_result_type) :
                          r \in {read_unsigned_int(g.s, g.s.next_shot)}})
    IN  Only({Typed(g, to_char(g.c)) : g \in {getc(s)}})

FormatDets_update_next_shot(s) ==
    LET Checked(s1) ==
            IF s1.next_shot < s1.position THEN Throw(s1, ShotInThePast)
            ELSE IF s1.next_shot >= bits_per_record THEN Throw(s1, ShotOutside)
            ELSE Ok(s1, 0)
        Parsed(r, next_result_type) ==
            IF ~r.ok THEN Throw([r.s EXCEPT !.separator = r.next], FailedToParse)
            ELSE IF r.next # SPACE /\ r.next # NL
            THEN Throw([r.s EXCEPT !.separator = r.next, !.next_shot = r.value],
                       UnexpectedSeparator)
            ELSE IF next_result_type # r.s.result_type
            THEN Checked([r.s EXCEPT !.separator = r.next,
                                     !.next_shot = r.value + r.s.position,
                                     !.result_type = next_result_type])
            ELSE Checked([r.s EXCEPT !.separator = r.next, !.next_shot = r.value])
        Typed(g, next_result_type) ==
            IF next_result_type = EOF THEN Ok([g.s EXCEPT !.separator = EOF], 0)
            ELSE IF next_result_type # CHM /\ next_result_type # CHD
                    /\ next_result_type # CHL
            THEN Throw(g.s, UnknownResultType)
            ELSE Only({Parsed(r, next_result_type) :
                          r \in {read_unsigned_int(g.s, g.s.next_shot)}})
    IN  Only({Typed(g, to_char(g.c)) : g \in {getc(s)}})

\* The constructor: the member initialisers, "shot", then update_next_shot().
\* What it throws leaves no reader.
FormatDets_ctor ==
    LET Consumed(k) ==
            IF k.err # NoError THEN Throw([k.s EXCEPT !.separator = k.next], k.err)
            ELSE IF ~k.ok THEN Throw([k.s EXCEPT !.separator = k.next], NeedShot)
            ELSE FormatDets_update_next_shot([k.s EXCEPT !.separator = k.next])
    IN  Only({Consumed(k) :
                 k \in {maybe_consume_keyword(
                            [Fields EXCEPT !.variant = "MeasureRecordReaderFormatDets",
                                           !.separator = NL], Shot)}})

\* FormatDets_read_bit pulling the next token one position early (>= for >).
FormatDets_read_bit_early(s) ==
    IF s.position >= bits_per_record THEN Throw(s, EndOfRecord)
    ELSE LET Updated(u) ==
                 IF u.err # NoError THEN u
                 ELSE Ok([u.s EXCEPT !.position = @ + 1],
                         Bool(u.s.next_shot = u.s.position))
         IN  Updated(IF s.position >= s.next_shot /\ s.separator = SPACE
                     THEN FormatDets_update_next_shot(s)
                     ELSE Ok(s, 0))

FormatDets_read_bit(s) ==
    IF s.position >= bits_per_record THEN Throw(s, EndOfRecord)
    ELSE LET Updated(u) ==
                 IF u.err # NoError THEN u
                 ELSE Ok([u.s EXCEPT !.position = @ + 1],
                         Bool(u.s.next_shot = u.s.position))
         IN  Updated(IF s.position > s.next_shot /\ s.separator = SPACE
                     THEN FormatDets_update_next_shot(s)
                     ELSE Ok(s, 0))

\* while (separator == ' ') update_next_shot();
RECURSIVE FormatDets_drain(_)
FormatDets_drain(s) ==
    IF s.separator = SPACE
    THEN LET Updated(u) == IF u.err # NoError THEN u ELSE FormatDets_drain(u.s)
         IN  Updated(FormatDets_update_next_shot(s))
    ELSE Ok(s, 0)

\* FormatDets_next_record demanding a "shot" as the constructor does.
FormatDets_next_record_strict(s) ==
    LET Updated(u) == IF u.err # NoError THEN u ELSE Ok(u.s, 1)
        Consumed(k) ==
            IF k.err # NoError THEN Throw([k.s EXCEPT !.separator = k.next], k.err)
            ELSE IF ~k.ok THEN Throw([k.s EXCEPT !.separator = k.next], NeedShot)
            ELSE Updated(FormatDets_update_next_shot(
                             [k.s EXCEPT !.separator = k.next,
                                         !.next_shot = -1,
                                         !.position = 0]))
        Drained(d) ==
            IF d.err # NoError THEN d
            ELSE Consumed(maybe_consume_keyword(d.s, Shot))
    IN  Drained(FormatDets_drain(s))

FormatDets_next_record(s) ==
    LET Updated(u) == IF u.err # NoError THEN u ELSE Ok(u.s, 1)
        Consumed(k) ==
            IF k.err # NoError THEN Throw([k.s EXCEPT !.separator = k.next], k.err)
            ELSE IF ~k.ok THEN Ok([k.s EXCEPT !.separator = k.next], 0)
            ELSE Updated(FormatDets_update_next_shot(
                             [k.s EXCEPT !.separator = k.next,
                                         !.next_shot = -1,
                                         !.position = 0]))
        Drained(d) ==
            IF d.err # NoError THEN d
            ELSE Consumed(maybe_consume_keyword(d.s, Shot))
    IN  Drained(FormatDets_drain(s))

----------------------------------------------------------------------------
(* The methods of the base class, and the virtual calls: the object's own  *)
(* class chooses the method.                                               *)

MeasureRecordReader_is_end_of_record(s) ==
    Ok(s, Bool(s.position >= bits_per_record))

MeasureRecordReader_next_record(s) ==
    Ok([s EXCEPT !.position = 0], 0)

read_bit(s) ==
    CASE s.variant = "MeasureRecordReaderFormat01" -> Format01_read_bit(s)
      [] s.variant = "MeasureRecordReaderFormatB8" -> FormatB8_read_bit(s)
      [] s.variant = "MeasureRecordReaderFormatHits" -> FormatHits_read_bit(s)
      [] s.variant = "MeasureRecordReaderFormatR8" -> FormatR8_read_bit(s)
      [] s.variant = "MeasureRecordReaderFormatDets" -> FormatDets_read_bit(s)

is_end_of_record(s) ==
    CASE s.variant = "MeasureRecordReaderFormat01" -> Format01_is_end_of_record(s)
      [] s.variant = "MeasureRecordReaderFormatB8" -> FormatB8_is_end_of_record(s)
      [] s.variant = "MeasureRecordReaderFormatHits" -> MeasureRecordReader_is_end_of_record(s)
      [] s.variant = "MeasureRecordReaderFormatR8" -> FormatR8_is_end_of_record(s)
      [] s.variant = "MeasureRecordReaderFormatDets" -> MeasureRecordReader_is_end_of_record(s)

next_record(s) ==
    CASE s.variant = "MeasureRecordReaderFormat01" -> Format01_next_record(s)
      [] s.variant = "MeasureRecordReaderFormatB8" -> MeasureRecordReader_next_record(s)
      [] s.variant = "MeasureRecordReaderFormatHits" -> FormatHits_next_record(s)
      [] s.variant = "MeasureRecordReaderFormatR8" -> MeasureRecordReader_next_record(s)
      [] s.variant = "MeasureRecordReaderFormatDets" -> FormatDets_next_record(s)

\* The two nested loops of MeasureRecordReader::read_bytes: byte i of data
\* (from 1), bit k of it, n bits read so far.  `b |= bit << k` adds bit * 2^k,
\* bit k of b being 0 since `b = 0`.
RECURSIVE MeasureRecordReader_read_loop(_, _, _, _, _)
MeasureRecordReader_read_loop(s, data, i, k, n) ==
    IF i > Len(data) THEN [Ok(s, n) EXCEPT !.data = data]
    ELSE LET AtEnd(e, d1) ==
                 IF e.ret = 1 THEN [Ok(e.s, n + 1) EXCEPT !.data = d1]
                 ELSE IF k = 7
                 THEN MeasureRecordReader_read_loop(e.s, d1, i + 1, 0, n + 1)
                 ELSE MeasureRecordReader_read_loop(e.s, d1, i, k + 1, n + 1)
             Bit(b, d0) ==
                 IF b.err # NoError THEN [b EXCEPT !.data = d0]
                 ELSE AtEnd(is_end_of_record(b.s),
                            [d0 EXCEPT ![i] = @ + b.ret * Pow2(k)])
         IN  Bit(read_bit(s), IF k = 0 THEN [data EXCEPT ![i] = 0] ELSE data)

MeasureRecordReader_read_bytes(s, data) ==
    IF s.position >= bits_per_record THEN [Ok(s, 0) EXCEPT !.data = data]
    ELSE MeasureRecordReader_read_loop(s, data, 1, 0, 0)

\* FormatB8_read_bytes asking fread for n_bits / 8 bytes, not rounded up.
FormatB8_read_bytes_floor(s, data) ==
    IF s.position >= bits_per_record THEN [Ok(s, 0) EXCEPT !.data = data]
    ELSE IF s.bits_available > 0 THEN MeasureRecordReader_read_bytes(s, data)
    ELSE LET n_bits == Min(8 * Len(data), bits_per_record - s.position)
             n_bytes == n_bits \div 8
             got == Min(n_bytes, Len(input) - s.off)
             n_bits2 == Min(8 * got, n_bits)
         IN  [Ok([s EXCEPT !.off = @ + got, !.position = @ + n_bits2], n_bits2)
                 EXCEPT !.data = [j \in 1..Len(data) |->
                                     IF j <= got THEN input[s.off + j] ELSE data[j]]]

\* fread(data.ptr_start, 1, n_bytes, in) copies the bytes the stream still has.
FormatB8_read_bytes(s, data) ==
    IF s.position >= bits_per_record THEN [Ok(s, 0) EXCEPT !.data = data]
    ELSE IF s.bits_available > 0 THEN MeasureRecordReader_read_bytes(s, data)
    ELSE LET n_bits == Min(8 * Len(data), bits_per_record - s.position)
             n_bytes == (n_bits + 7) \div 8
             got == Min(n_bytes, Len(input) - s.off)
             n_bits2 == Min(8 * got, n_bits)
         IN  [Ok([s EXCEPT !.off = @ + got, !.position = @ + n_bits2], n_bits2)
                 EXCEPT !.data = [j \in 1..Len(data) |->
                                     IF j <= got THEN input[s.off + j] ELSE data[j]]]

RECURSIVE FormatR8_read_loop(_, _, _, _, _)
FormatR8_read_loop(s, data, i, k, n) ==
    IF i > Len(data) THEN [Ok(s, n) EXCEPT !.data = data]
    ELSE IF k = 0 /\ s.run_length_0s >= s.generated_0s + 8
                  /\ bits_per_record >= s.position + 8
    THEN FormatR8_read_loop([s EXCEPT !.position = @ + 8, !.generated_0s = @ + 8],
                            [data EXCEPT ![i] = 0], i + 1, 0, n + 8)
    ELSE IF k = 8 THEN FormatR8_read_loop(s, data, i + 1, 0, n)
    ELSE LET Bit(b, d0) ==
                 IF b.err # NoError THEN [b EXCEPT !.data = d0]
                 ELSE FormatR8_read_loop(b.s, [d0 EXCEPT ![i] = @ + b.ret * Pow2(k)],
                                         i, k + 1, n + 1)
             AtEnd(e, d0) ==
                 IF e.ret = 1 THEN [Ok(e.s, n) EXCEPT !.data = d0]
                 ELSE Bit(FormatR8_read_bit(e.s), d0)
         IN  AtEnd(FormatR8_is_end_of_record(s),
                   IF k = 0 THEN [data EXCEPT ![i] = 0] ELSE data)

FormatR8_read_bytes(s, data) ==
    IF s.position >= bits_per_record THEN [Ok(s, 0) EXCEPT !.data = data]
    ELSE FormatR8_read_loop(s, data, 1, 0, 0)

read_bytes(s, data) ==
    CASE s.variant = "MeasureRecordReaderFormat01" -> MeasureRecordReader_read_bytes(s, data)
      [] s.variant = "MeasureRecordReaderFormatB8" -> FormatB8_read_bytes(s, data)
      [] s.variant = "MeasureRecordReaderFormatHits" -> MeasureRecordReader_read_bytes(s, data)
      [] s.variant = "MeasureRecordReaderFormatR8" -> FormatR8_read_bytes(s, data)
      [] s.variant = "MeasureRecordReaderFormatDets" -> MeasureRecordReader_read_bytes(s, data)

\* The base constructor, which every reader's constructor runs first.
MeasureRecordReader_ctor(bits_per_record_) ==
    IF bits_per_record_ > SSIZE_MAX THEN RecordTooBig ELSE NoError

\* make without its test of n_logical_observables.
make_no_observables_test ==
    IF fmt # "DETS" /\ n_detection_events # 0 THEN Throw(Fields, OnlyDetsDetectionEvents)
    ELSE IF fmt = "PTB64" THEN Throw(Fields, Ptb64Incompatible)
    ELSE IF fmt \notin {"01", "B8", "DETS", "HITS", "R8"}
    THEN Throw(Fields, FormatNotRecognized)
    ELSE IF MeasureRecordReader_ctor(bits_per_record) # NoError
    THEN Throw(Fields, MeasureRecordReader_ctor(bits_per_record))
    ELSE CASE fmt = "01" -> Ok(Format01_ctor, 0)
           [] fmt = "B8" -> Ok(FormatB8_ctor, 0)
           [] fmt = "DETS" -> FormatDets_ctor
           [] fmt = "HITS" -> FormatHits_ctor
           [] fmt = "R8" -> Ok(FormatR8_ctor, 0)

\* MeasureRecordReader::make(in, fmt, bits_per_record, n_detection_events,
\* n_logical_observables): the constructor's result, or what is thrown.
make ==
    IF fmt # "DETS" /\ n_detection_events # 0 THEN Throw(Fields, OnlyDetsDetectionEvents)
    ELSE IF fmt # "DETS" /\ n_logical_observables # 0 THEN Throw(Fields, OnlyDetsObservables)
    ELSE IF fmt = "PTB64" THEN Throw(Fields, Ptb64Incompatible)
    ELSE IF fmt \notin {"01", "B8", "DETS", "HITS", "R8"}
    THEN Throw(Fields, FormatNotRecognized)
    ELSE IF MeasureRecordReader_ctor(bits_per_record) # NoError
    THEN Throw(Fields, MeasureRecordReader_ctor(bits_per_record))
    ELSE CASE fmt = "01" -> Ok(Format01_ctor, 0)
           [] fmt = "B8" -> Ok(FormatB8_ctor, 0)
           [] fmt = "DETS" -> FormatDets_ctor
           [] fmt = "HITS" -> FormatHits_ctor
           [] fmt = "R8" -> Ok(FormatR8_ctor, 0)

----------------------------------------------------------------------------
(* RareErrorIterator.  A float is [nan, tenths]: not-a-number, or a value  *)
(* given in tenths; every comparison with a NaN is false.                  *)

Float(tenths) == [nan |-> FALSE, tenths |-> tenths]
NaN == [nan |-> TRUE, tenths |-> 0]
float_ge(a, b) == ~a.nan /\ ~b.nan /\ a.tenths >= b.tenths
float_le(a, b) == ~a.nan /\ ~b.nan /\ a.tenths <= b.tenths
float_eq(a, b) == ~a.nan /\ ~b.nan /\ a.tenths = b.tenths

\* RareErrorIterator(float probability): next_candidate(0), is_one(probability == 1).
RareErrorIterator_ctor(p) ==
    LET o == [next_candidate |-> 0, is_one |-> float_eq(p, Float(10))] IN
    IF ~(float_ge(p, Float(0)) /\ float_le(p, Float(10)))
    THEN Throw(o, InvalidProbability)
    ELSE Ok(o, 0)

\* RareErrorIterator_next leaving next_candidate on the position it returns.
RareErrorIterator_next_stay(o, d) ==
    LET result == o.next_candidate + (IF o.is_one THEN 0 ELSE d) IN
    Ok([o EXCEPT !.next_candidate = result], result)

\* RareErrorIterator::next(rng), d being the value dist(rng) draws.
RareErrorIterator_next(o, d) ==
    LET result == o.next_candidate + (IF o.is_one THEN 0 ELSE d) IN
    Ok([o EXCEPT !.next_candidate = result + 1], result)

\* The iterator of a run that only uses a reader.
NoIterator == RareErrorIterator_ctor(Float(10)).s

\* make(in, fmt, bits_per_record) with no detection events and no observables.
DefaultConfig ==
    /\ n_detection_events = 0
    /\ n_logical_observables = 0
    /\ char_signed = TRUE
    /\ probability = Float(10)
    /\ it = NoIterator

----------------------------------------------------------------------------
(* The streams the readers are run on.                                     *)

Strings(A, n) == UNION {[1..k -> A] : k \in 0..n}

\* 120 is 'x', a character no format accepts.
Alphabet01 == {CH0, CH1, NL, 120}
AlphabetB8 == {90, 165}
AlphabetR8 == {0, 8, 255}
AlphabetHits == {CH0, CH1, CH0 + 3, COMMA, NL, 120}

\* The caller's buffer before read_bytes: n bytes the reader has not written.
FreshBuffer(n) == [j \in 1..n |-> 255]

\* The state after MeasureRecordReader::make(in, fmt, bits_per_record, 0, 0).
Constructed ==
    /\ \E m \in {make} :
          /\ rd = m.s
          /\ last = [op |-> "make", ret |-> 0, err |-> m.err, data |-> <<>>]
    /\ pre = Fields
    /\ rec = 0
    /\ nread = 0
    /\ nexts = 0
    /\ eos = FALSE

Init01 ==
    /\ fmt = "01"
    /\ bits_per_record \in 0..MaxBits01
    /\ input \in Strings(Alphabet01, MaxLen01)
    /\ sent = <<>>
    /\ DefaultConfig
    /\ Constructed

InitB8 ==
    /\ fmt = "B8"
    /\ bits_per_record \in 0..MaxBitsB8
    /\ input \in Strings(AlphabetB8, MaxLenB8)
    /\ sent = <<>>
    /\ DefaultConfig
    /\ Constructed

InitR8 ==
    /\ fmt = "R8"
    /\ bits_per_record \in 0..MaxBitsR8
    /\ input \in Strings(AlphabetR8, MaxLenR8)
    /\ sent = <<>>
    /\ DefaultConfig
    /\ Constructed

InitHits ==
    /\ fmt = "HITS"
    /\ bits_per_record \in 0..MaxBitsHits
    /\ input \in Strings(AlphabetHits, MaxLenHits)
    /\ sent = <<>>
    /\ DefaultConfig
    /\ Constructed

\* The B8 writer: bits packed LSB-first, eight to a byte, the last byte padded
\* with zeros.
PackB8(bits) ==
    [j \in 1..((Len(bits) + 7) \div 8) |->
        LET Bit(k) == IF 8 * (j - 1) + k < Len(bits) THEN bits[8 * (j - 1) + k + 1] ELSE 0
        IN  Bit(0) + 2 * Bit(1) + 4 * Bit(2) + 8 * Bit(3)
            + 16 * Bit(4) + 32 * Bit(5) + 64 * Bit(6) + 128 * Bit(7)]

\* A B8 stream written from one record of up to MaxPackB8 bits.
InitB8Pack ==
    /\ fmt = "B8"
    /\ \E bits \in Strings({0, 1}, MaxPackB8) :
          /\ sent = <<bits>>
          /\ input = PackB8(bits)
          /\ bits_per_record = Len(bits)
    /\ DefaultConfig
    /\ Constructed

\* The decimal digits of n, as the HITS writer prints an index.
RECURSIVE ToDec(_)
ToDec(n) == IF n < 10 THEN <<CH0 + n>> ELSE ToDec(n \div 10) \o <<CH0 + (n % 10)>>

RECURSIVE JoinHits(_)
JoinHits(hits) ==
    IF hits = <<>> THEN <<>>
    ELSE IF Len(hits) = 1 THEN ToDec(hits[1])
    ELSE ToDec(hits[1]) \o <<COMMA>> \o JoinHits(Tail(hits))

\* The HITS writer: each record is its indices, comma-separated, then a
\* newline; `newline` tells whether the last record has its newline too.
RECURSIVE EncodeHits(_, _)
EncodeHits(recs, newline) ==
    IF recs = <<>> THEN <<>>
    ELSE IF Len(recs) = 1 THEN JoinHits(recs[1]) \o (IF newline THEN <<NL>> ELSE <<>>)
    ELSE JoinHits(recs[1]) \o <<NL>> \o EncodeHits(Tail(recs), newline)

\* The well-formed records of n bits with at most MaxHitsPerRec hits: strictly
\* ascending indices below n.
HitRecords(n) ==
    {h \in Strings(0..(n - 1), MaxHitsPerRec) :
        \A a, b \in 1..Len(h) : a < b => h[a] < h[b]}

\* Two more streams: the record "1,3,7" of 8 bits, and records of 12 bits
\* with two-digit indices.
HitsExamples ==
    {[bits |-> 8, recs |-> << <<1, 3, 7>> >>],
     [bits |-> 12, recs |-> << <<2, 10, 11>>, <<11>> >>]}

\* A HITS stream written from up to MaxRecsHits well-formed records.
InitHitsEnc ==
    /\ fmt = "HITS"
    /\ \/ /\ bits_per_record \in 0..MaxBitsEnc
          /\ sent \in Strings(HitRecords(bits_per_record), MaxRecsHits)
       \/ \E e \in HitsExamples : bits_per_record = e.bits /\ sent = e.recs
    /\ \E newline \in BOOLEAN : input = EncodeHits(sent, newline)
    /\ DefaultConfig
    /\ Constructed

\* A HITS stream written from records whose indices are below bits_per_record
\* but in any order, repeated ones included.
InitHitsAny ==
    /\ fmt = "HITS"
    /\ bits_per_record \in 0..MaxBitsEnc
    /\ sent \in Strings(Strings(0..(bits_per_record - 1), MaxHitsPerRec), MaxRecsHits)
    /\ \E newline \in BOOLEAN : input = EncodeHits(sent, newline)
    /\ DefaultConfig
    /\ Constructed

\* The R8 descriptor of a run of z zeros: 0xFF for each 255, then a byte 0..254.
RECURSIVE EncodeRunR8(_)
EncodeRunR8(z) == IF z >= 255 THEN <<255>> \o EncodeRunR8(z - 255) ELSE <<z>>

RECURSIVE EncodeR8(_)
EncodeR8(runs) ==
    IF runs = <<>> THEN <<>> ELSE EncodeRunR8(Head(runs)) \o EncodeR8(Tail(runs))

\* Zero-run lengths: the short ones, and those around one and two 0xFF bytes.
RunLengthsR8 == (0..MaxRunR8) \cup {254, 255, 510}

\* An R8 stream written from up to MaxRunsR8 run descriptors.
InitR8Runs ==
    /\ fmt = "R8"
    /\ bits_per_record \in 0..MaxBitsR8
    /\ sent \in Strings(RunLengthsR8, MaxRunsR8)
    /\ input = EncodeR8(sent)
    /\ DefaultConfig
    /\ Constructed

\* A raw DETS stream: a first word, then any characters.  120 is 'x'.
DetsHeads ==
    {<<>>, Shot, Shot \o <<SPACE>>, SubSeq(Shot, 1, 3), SubSeq(Shot, 1, 3) \o <<120>>}
AlphabetDets == {SPACE, CHM, CHD, CH0, CH0 + 2, NL}

InitDets ==
    /\ fmt = "DETS"
    /\ bits_per_record \in 0..MaxBitsDets
    /\ \E head \in DetsHeads, tail \in Strings(AlphabetDets, MaxLenDets) :
          input = head \o tail
    /\ sent = <<>>
    /\ n_detection_events = 0
    /\ n_logical_observables = 0
    /\ char_signed \in BOOLEAN
    /\ probability = Float(10)
    /\ it = NoIterator
    /\ Constructed

\* The DETS writer: "shot", then " " and a tag and an index for every token,
\* then a newline.  A token is <<tag, index>>.
RECURSIVE JoinShots(_)
JoinShots(tokens) ==
    IF tokens = <<>> THEN <<>>
    ELSE <<SPACE, tokens[1][1]>> \o ToDec(tokens[1][2]) \o JoinShots(Tail(tokens))

RECURSIVE EncodeDets(_)
EncodeDets(recs) ==
    IF recs = <<>> THEN <<>>
    ELSE Shot \o JoinShots(recs[1]) \o <<NL>> \o EncodeDets(Tail(recs))

\* The positions at which a record read bit by bit holds a 1: an index whose
\* tag is the tag of the token before it is a position, any other index counts
\* from the position after the 1 before it.
RECURSIVE ShotPositions(_)
ShotPositions(tokens) ==
    IF tokens = <<>> THEN <<>>
    ELSE LET before == ShotPositions(SubSeq(tokens, 1, Len(tokens) - 1))
             tok == tokens[Len(tokens)]
         IN  IF before = <<>> THEN <<tok[2]>>
             ELSE IF tok[1] # tokens[Len(tokens) - 1][1]
             THEN Append(before, tok[2] + before[Len(before)] + 1)
             ELSE Append(before, tok[2])

\* The records of n bits with 1 to MaxShotsPerRec tokens of the given tags whose
\* positions are strictly ascending and below n.
ShotRecords(n, tags) ==
    {r \in Strings(tags \X (0..(n - 1)), MaxShotsPerRec) :
        /\ r # <<>>
        /\ \A a \in 1..Len(r) : ShotPositions(r)[a] < n
        /\ \A a, b \in 1..Len(r) : a < b => ShotPositions(r)[a] < ShotPositions(r)[b]}

\* Two more streams: "shot M1 D0 L2\n" of 6 bits, and two shots of 4 bits, the
\* second beginning with the tag the first ended with.
TypedExamples ==
    {[bits |-> 6, recs |-> << << <<CHM, 1>>, <<CHD, 0>>, <<CHL, 2>> >> >>],
     [bits |-> 4, recs |-> << << <<CHM, 0>>, <<CHD, 1>> >>,
                              << <<CHD, 1>>, <<CHM, 0>> >> >>]}

\* A DETS stream written from 1 to n records of the given tags, or from one of
\* the examples.
DetsEncoded(tags, n, examples) ==
    /\ fmt = "DETS"
    /\ \/ /\ bits_per_record \in 1..MaxBitsDetsEnc
          /\ sent \in Strings(ShotRecords(bits_per_record, tags), n)
          /\ sent # <<>>
       \/ \E e \in examples : bits_per_record = e.bits /\ sent = e.recs
    /\ input = EncodeDets(sent)
    /\ DefaultConfig
    /\ Constructed

InitDetsM == DetsEncoded({CHM}, MaxRecsDets, {})

\* A DETS stream written from one record of M and D tokens whose indices are
\* at most bits_per_record, in any order.
InitDetsAny ==
    /\ fmt = "DETS"
    /\ bits_per_record \in 0..MaxBitsDetsEnc
    /\ \E r \in Strings({CHM, CHD} \X (0..bits_per_record), MaxShotsPerRec) :
          sent = <<r>>
    /\ input = EncodeDets(sent)
    /\ DefaultConfig
    /\ Constructed

\* A DETS stream written from 1 to MaxRecsDets shots of M tokens, shots without
\* a token ("shot" alone on its line) among them.
InitDetsLines ==
    /\ fmt = "DETS"
    /\ bits_per_record \in 1..MaxBitsDetsEnc
    /\ sent \in Strings({<<>>} \cup ShotRecords(bits_per_record, {CHM}), MaxRecsDets)
    /\ sent # <<>>
    /\ input = EncodeDets(sent)
    /\ DefaultConfig
    /\ Constructed

InitDetsTyped == DetsEncoded({CHM, CHD}, MaxRecsTyped, TypedExamples)

\* make called with any format tag and any counts, on a few streams: empty,
\* "0\n", "x" and "shot M0\n".
SampleFormats == {"01", "B8", "DETS", "HITS", "PTB64", "R8", "unrecognized"}
MakeStreams ==
    {<<>>, <<CH0, NL>>, <<120>>, Shot \o <<SPACE, CHM, CH0, NL>>}

InitMake ==
    /\ fmt \in SampleFormats
    /\ bits_per_record \in 0..1
    /\ input \in MakeStreams
    /\ sent = <<>>
    /\ n_detection_events \in 0..1
    /\ n_logical_observables \in 0..1
    /\ char_signed = TRUE
    /\ probability = Float(10)
    /\ it = NoIterator
    /\ Constructed

\* The probabilities an iterator is constructed with: -0.1, 0, 0.1 .. 1, 1.1
\* and not-a-number.
Probabilities == {NaN} \cup {Float(x) : x \in -1..11}

\* The state after RareErrorIterator(probability); no reader is made.
InitIterator ==
    /\ fmt = "none"
    /\ bits_per_record = 0
    /\ input = <<>>
    /\ sent = <<>>
    /\ n_detection_events = 0
    /\ n_logical_observables = 0
    /\ char_signed = TRUE
    /\ probability \in Probabilities
    /\ \E c \in {RareErrorIterator_ctor(probability)} :
          /\ it = c.s
          /\ last = [op |-> "RareErrorIterator", ret |-> 0, err |-> c.err, data |-> <<>>]
    /\ rd = Fields
    /\ pre = Fields
    /\ rec = 0
    /\ nread = 0
    /\ nexts = 0
    /\ eos = FALSE

Init == Init01 \/ InitB8 \/ InitR8 \/ InitHits

----------------------------------------------------------------------------
(* The caller: one action per method.  A call that raised ends the run     *)
(* (resuming after an error is undefined).                                 *)

Called(op, r) == [op |-> op, ret |-> r.ret, err |-> r.err, data |-> r.data]

ReadBit ==
    /\ last.err = NoError
    /\ \E r \in {read_bit(rd)} :
       /\ rd' = r.s
       /\ last' = Called("read_bit", r)
       /\ nread' = IF r.err = NoError THEN nread + 1 ELSE nread
    /\ pre' = rd
    /\ UNCHANGED <<env, it, rec, nexts, eos>>

ReadBytes ==
    /\ last.err = NoError
    /\ \E n \in 0..MaxBuf :
       \E r \in {read_bytes(rd, FreshBuffer(n))} :
          /\ rd' = r.s
          /\ last' = Called("read_bytes", r)
    /\ pre' = rd
    /\ UNCHANGED <<env, it, rec, nread, nexts, eos>>

IsEndOfRecord ==
    /\ last.err = NoError
    /\ \E r \in {is_end_of_record(rd)} :
       /\ rd' = r.s
       /\ last' = Called("is_end_of_record", r)
    /\ pre' = rd
    /\ UNCHANGED <<env, it, rec, nread, nexts, eos>>

\* B8 and R8 hold one record and their next_record() only resets the cursor, so
\* a caller could go round for ever: the model stops it after MaxNext calls.
NextRecord ==
    /\ last.err = NoError
    /\ fmt \in {"B8", "R8"} => nexts < MaxNext
    /\ nexts' = IF fmt \in {"B8", "R8"} THEN nexts + 1 ELSE nexts
    /\ \E r \in {next_record(rd)} :
       /\ rd' = r.s
       /\ last' = Called("next_record", r)
       /\ rec' = IF r.err = NoError /\ r.ret = 1 THEN rec + 1 ELSE rec
       /\ eos' = (eos \/ (r.err = NoError /\ r.ret = 0))
    /\ nread' = 0
    /\ pre' = rd
    /\ UNCHANGED <<env, it>>

\* RareErrorIterator::next.  The geometric distribution draws a gap of 0 or
\* more when 0 < probability < 1; at probability 0 it has no draw to give, and
\* the call is left out.  Positions are let grow up to MaxPosition.
IteratorNext ==
    /\ fmt = "none"
    /\ last.err = NoError
    /\ ~float_eq(probability, Float(0))
    /\ \E d \in 0..MaxGap :
       \E r \in {RareErrorIterator_next(it, d)} :
          /\ r.ret <= MaxPosition
          /\ it' = r.s
          /\ last' = Called("next", r)
    /\ UNCHANGED <<env, rd, pre, rec, nread, nexts, eos>>

Next == ReadBit \/ ReadBytes \/ IsEndOfRecord \/ NextRecord

\* A caller that reads its records bit by bit.
NextBits == ReadBit \/ IsEndOfRecord \/ NextRecord

\* A caller that reads one record bit by bit and stops.
NextOfRecord == ReadBit \/ IsEndOfRecord

Spec == Init /\ [][Next]_vars

Spec01 == Init01 /\ [][Next]_vars

SpecB8 == InitB8 /\ [][Next]_vars

SpecR8 == InitR8 /\ [][Next]_vars

SpecHits == InitHits /\ [][Next]_vars

SpecB8Pack == InitB8Pack /\ [][NextBits]_vars

SpecHitsEnc == InitHitsEnc /\ [][NextBits]_vars

SpecHitsAny == InitHitsAny /\ [][NextBits]_vars

SpecIterator == InitIterator /\ [][IteratorNext]_vars

SpecR8Runs == InitR8Runs /\ [][NextOfRecord]_vars

SpecDetsCalls == InitDetsM /\ [][Next]_vars

SpecSingle == (InitB8 \/ InitR8) /\ [][NextBits]_vars

SpecLines == (Init01 \/ InitHits \/ InitDetsLines) /\ [][Next]_vars

SpecMake == InitMake /\ [][NextBits]_vars

\* The formats that hold any number of records.
SpecRecords == (Init01 \/ InitHits \/ InitDets \/ InitDetsM) /\ [][NextBits]_vars

SpecDets == InitDets /\ [][NextBits]_vars

\* The formats that list the positions of the 1s.
SpecSparse == (InitHits \/ InitDets \/ InitDetsAny) /\ [][NextBits]_vars

SpecDetsM == InitDetsM /\ [][NextBits]_vars

SpecDetsTyped == InitDetsTyped /\ [][NextBits]_vars

----------------------------------------------------------------------------
(* Properties.                                                             *)

\* Bit q (from 0) of a buffer, LSB-first within each byte.
BitOf(data, q) == (data[(q \div 8) + 1] \div Pow2(q % 8)) % 2

\* The first record of a 01 stream is well formed: bits_per_record >= 1
\* characters '0' / '1', then a newline or the end of the stream.
WellFormedFirst01 ==
    /\ bits_per_record >= 1
    /\ Len(input) >= bits_per_record
    /\ \A i \in 1..bits_per_record : input[i] \in {CH0, CH1}
    /\ (Len(input) = bits_per_record \/ input[bits_per_record + 1] = NL)

\* The reader is still on the first record of its stream.
OnFirstRecord == rec = 0 /\ ~eos /\ nexts = 0

\* C1: on the first record of a well-formed stream, once bits_per_record
\* read_bit() calls have succeeded, is_end_of_record() returns true and a
\* further read_bit() fails with the end-of-record error.  (For B8, R8 and
\* HITS the reads having succeeded is all the well-formedness needed.)
C1_EndOfRecordAfterFullRead ==
    (/\ OnFirstRecord
     /\ nread = bits_per_record
     /\ fmt = "01" => WellFormedFirst01)
    => /\ last.op = "is_end_of_record" => last.ret = 1
       /\ (last.op = "read_bit" /\ pre.position = bits_per_record)
             => last.err = EndOfRecord

\* C2: a read_bit() that directly follows an is_end_of_record() that returned
\* false returns a bit and raises nothing.
C2_ReadBitAfterNotEnd ==
    [][(last.op = "is_end_of_record" /\ last.ret = 0 /\ last'.op = "read_bit")
          => last'.err = NoError]_vars

\* C3: read_bytes called in a state where is_end_of_record() is true returns 0
\* and raises nothing.
C3_ReadBytesAtEndReturnsZero ==
    (last.op = "read_bytes" /\ is_end_of_record(pre).ret = 1)
    => (last.err = NoError /\ last.ret = 0)

\* A 01 stream of whole records: each is bits_per_record >= 1 characters
\* '0' / '1' and a newline.
WellFormed01 ==
    /\ bits_per_record >= 1
    /\ Len(input) >= 1
    /\ Len(input) % (bits_per_record + 1) = 0
    /\ \A i \in 1..Len(input) :
          IF i % (bits_per_record + 1) = 0 THEN input[i] = NL ELSE input[i] \in {CH0, CH1}

NumRecords01 == Len(input) \div (bits_per_record + 1)

\* C4: on a 01 stream of whole records next_record(), after any number of bits
\* of the current record, raises nothing; when it returns true the reader is
\* at the first character of the following record, and it returns true once
\* per record that follows.
C4_NextRecordSkipsRest ==
    (fmt = "01" /\ WellFormed01 /\ last.op = "next_record")
    => /\ last.err = NoError
       /\ last.ret = 1 =>
             /\ rec < NumRecords01
             /\ rd.position = 0
             /\ rd.off = rec * (bits_per_record + 1) + 1
             /\ rd.payload = input[rec * (bits_per_record + 1) + 1]
       /\ last.ret = 0 => rec = NumRecords01 - 1

\* What the generic MeasureRecordReader::read_bytes does from the state and
\* with the buffer the last read_bytes call was given.
GenericReadBytes == MeasureRecordReader_read_bytes(pre, FreshBuffer(Len(last.data)))

\* The last call was a B8 read_bytes that took the bulk (fread) path or
\* returned at once.
BulkB8 == fmt = "B8" /\ last.op = "read_bytes" /\ pre.bits_available = 0

\* C5 as stated: the bulk read_bytes of B8 leaves the same buffer and returns
\* the same count as the generic bit-by-bit read_bytes.
C5_BulkEqualsGeneric ==
    BulkB8 => /\ GenericReadBytes.err = last.err
              /\ GenericReadBytes.ret = last.ret
              /\ GenericReadBytes.data = last.data

\* C5 amended: the bulk path returns the count the generic path returns, and
\* the buffers agree on every bit below the count and on every byte past it;
\* in the final partial byte the bulk path holds the whole stream byte where
\* the generic path holds only the bits below the count.  On an exhausted
\* stream with bits still due the bulk path returns 0 and the generic path
\* raises end-of-file.
C5_BulkAgreesBelowCount ==
    BulkB8 =>
       /\ last.err = NoError
       /\ IF GenericReadBytes.err # NoError
          THEN /\ GenericReadBytes.err = EndOfFile
               /\ pre.off = Len(input)
               /\ last.ret = 0
               /\ last.data = FreshBuffer(Len(last.data))
          ELSE /\ GenericReadBytes.ret = last.ret
               /\ \A q \in 0..(last.ret - 1) :
                     BitOf(GenericReadBytes.data, q) = BitOf(last.data, q)
               /\ \A j \in 1..Len(last.data) :
                     \/ 8 * j <= last.ret /\ GenericReadBytes.data[j] = last.data[j]
                     \/ /\ 8 * (j - 1) < last.ret /\ last.ret < 8 * j
                        /\ last.data[j] = input[pre.off + j]
                        /\ GenericReadBytes.data[j] = last.data[j] % Pow2(last.ret % 8)
                     \/ /\ 8 * (j - 1) >= last.ret
                        /\ last.data[j] = FreshBuffer(j)[j]
                        /\ GenericReadBytes.data[j] = last.data[j]

\* A bulk read that ended in a partial byte whose unused high bits are set.
C5_Witness ==
    /\ BulkB8
    /\ last.ret % 8 # 0
    /\ last.ret > 8
    /\ last.data[(last.ret \div 8) + 1] >= Pow2(last.ret % 8)
    /\ GenericReadBytes.data # last.data

\* The results of n successive read_bit() calls from state s; a call that
\* raises ends the sequence with -1.
RECURSIVE BitsByReadBit(_, _)
BitsByReadBit(s, n) ==
    IF n = 0 THEN <<>>
    ELSE LET b == read_bit(s) IN
         IF b.err # NoError THEN <<-1>>
         ELSE <<b.ret>> \o BitsByReadBit(b.s, n - 1)

\* The first n bits of a buffer.
BitsOfBuffer(data, n) == [q \in 1..n |-> BitOf(data, q - 1)]

\* C6: an R8 read_bytes writes the bits that the same number of read_bit()
\* calls return from the state it started in, in the same order.
C6_ReadBytesEqualsReadBit ==
    (fmt = "R8" /\ last.op = "read_bytes" /\ last.err = NoError)
    => BitsOfBuffer(last.data, last.ret) = BitsByReadBit(pre, last.ret)

\* C7: a B8 stream packed from the bits sent[1], read bit by bit before any
\* next_record(): every read_bit() below bits_per_record returns the bit that
\* was packed at its position, and is_end_of_record() is true once all are read.
C7_B8RoundTrip ==
    (fmt = "B8" /\ nexts = 0)
    => /\ (last.op = "read_bit" /\ pre.position < bits_per_record)
             => (last.err = NoError /\ last.ret = sent[1][pre.position + 1])
       /\ (last.op = "is_end_of_record" /\ rd.position = bits_per_record)
             => last.ret = 1

\* The last bit of a record ending in a partial second byte was read, and is 1.
C7_Witness ==
    /\ fmt = "B8" /\ nexts = 0
    /\ last.op = "read_bit" /\ last.err = NoError /\ last.ret = 1
    /\ bits_per_record > 8 /\ bits_per_record % 8 # 0
    /\ rd.position = bits_per_record
    /\ nread = bits_per_record

\* The reader is on record rec + 1 of the records sent, and that record ends
\* with a newline.
OnSentRecord ==
    /\ ~eos
    /\ rec + 1 <= Len(sent)
    /\ (rec + 1 < Len(sent) \/ (input # <<>> /\ input[Len(input)] = NL))

Elements(seq) == {seq[i] : i \in 1..Len(seq)}

\* C8: on a newline-terminated HITS record with strictly ascending indices
\* below bits_per_record, the read_bit() at position p returns true exactly
\* when p is one of the record's indices.
C8_HitsDecode ==
    (fmt = "HITS" /\ OnSentRecord /\ last.op = "read_bit"
        /\ pre.position < bits_per_record)
    => /\ last.err = NoError
       /\ last.ret = Bool(pre.position \in Elements(sent[rec + 1]))

\* A hit of the second record was read as true after a miss.
C8_Witness ==
    /\ fmt = "HITS" /\ OnSentRecord /\ rec = 1
    /\ last.op = "read_bit" /\ last.err = NoError /\ last.ret = 1
    /\ pre.position > 0
    /\ Len(sent[2]) = 2 /\ pre.position = sent[2][2]

StrictlyAscending(h) == \A a, b \in 1..Len(h) : a < b => h[a] < h[b]

\* C9: the HITS reader has raised by the time next_record() has left a record
\* holding an index that is not above the one before it: no record left
\* without an error is out of order.
C9_NonAscendingRejected ==
    (fmt = "HITS" /\ last.err = NoError)
    => \A i \in 1..Min(rec, Len(sent)) : StrictlyAscending(sent[i])

\* C10: a stream of well-formed HITS records whose last index is directly
\* followed by the end of the stream is read without a decode error: the only
\* error a caller can get is for reading past the end of a record.
C10_LastRecordEndsAtEOF ==
    (fmt = "HITS" /\ input # <<>> /\ isdigit(input[Len(input)]))
    => last.err \in {NoError, EndOfRecord}

----------------------------------------------------------------------------
(* DETS records.                                                           *)

\* The reader is on record rec + 1 of the shots sent.
OnSentShot == fmt = "DETS" /\ ~eos /\ rec + 1 <= Len(sent)

BeginsWithShot == Len(input) >= Len(Shot) /\ SubSeq(input, 1, Len(Shot)) = Shot

\* C12: a DETS stream that does not begin with "shot" is rejected at
\* construction or at the first read: no read_bit() on it ever returns a bit.
C12_ShotRequired ==
    (fmt = "DETS" /\ ~BeginsWithShot)
    => ~(last.op = "read_bit" /\ last.err = NoError)

----------------------------------------------------------------------------
(* MeasureRecordReader::make.                                              *)

\* What make throws as std::invalid_argument.
ConfigurationErrors ==
    {OnlyDetsDetectionEvents, OnlyDetsObservables, Ptb64Incompatible,
     FormatNotRecognized, RecordTooBig}

VariantOf(f) ==
    CASE f = "01" -> "MeasureRecordReaderFormat01"
      [] f = "B8" -> "MeasureRecordReaderFormatB8"
      [] f = "DETS" -> "MeasureRecordReaderFormatDets"
      [] f = "HITS" -> "MeasureRecordReaderFormatHits"
      [] f = "R8" -> "MeasureRecordReaderFormatR8"

Supported == {"01", "B8", "DETS", "HITS", "R8"}

ZeroCounts == n_detection_events = 0 /\ n_logical_observables = 0

\* make refuses counts that are not zero for a format other than DETS, PTB64
\* and tags it does not know.
MakeRefuses ==
    ((fmt # "DETS" /\ ~ZeroCounts) \/ fmt \notin Supported)
    => last.err \in ConfigurationErrors

\* C13 as claimed: make raises a configuration error for counts that are not
\* zero with a format other than DETS, for PTB64 and for unknown tags; for a
\* supported format with zero counts it returns a reader of the matching class.
C13_MakeConfiguration ==
    last.op = "make"
    => /\ MakeRefuses
       /\ (fmt \in Supported /\ ZeroCounts)
          => (last.err = NoError /\ rd.variant = VariantOf(fmt))

\* C13 as amended: for a supported format with zero counts make raises no
\* configuration error and runs the constructor of the matching class; only the
\* HITS and DETS constructors, which read the stream, may raise a decode error.
C13_MakeConfigurationOrDecodeError ==
    last.op = "make"
    => /\ MakeRefuses
       /\ (fmt \in Supported /\ ZeroCounts)
          => /\ last.err \notin ConfigurationErrors
             /\ rd.variant = VariantOf(fmt)
             /\ last.err # NoError => fmt \in {"HITS", "DETS"}

\* make was given a count for a format other than DETS and has refused it.
C13_Witness ==
    /\ last.op = "make" /\ fmt = "HITS"
    /\ n_detection_events = 0 /\ n_logical_observables = 1
    /\ last.err = OnlyDetsObservables

----------------------------------------------------------------------------
(* The end of the stream.                                                  *)

\* Before the last call the record had been read to its last bit and the
\* newline that ends it was the last byte of the stream.
ReadToLastNewline ==
    /\ pre.position = bits_per_record
    /\ pre.off = Len(input)
    /\ \/ fmt = "01" /\ pre.payload = NL
       \/ fmt \in {"HITS", "DETS"} /\ pre.separator = NL

\* C14: in the 01, HITS and DETS readers next_record() called on a record read
\* to its end, with nothing after its newline, returns false and raises nothing;
\* is_end_of_record() never raises.
C14_BoundaryIsNotAnError ==
    fmt \in {"01", "HITS", "DETS"}
    => /\ last.op = "is_end_of_record" => last.err = NoError
       /\ (last.op = "next_record" /\ ReadToLastNewline)
          => (last.err = NoError /\ last.ret = 0)

\* The second shot of a DETS stream was read to its end and next_record() has
\* then returned false.
C14_Witness ==
    /\ fmt = "DETS" /\ rec = 1 /\ bits_per_record > 1
    /\ last.op = "next_record" /\ ReadToLastNewline
    /\ last.err = NoError /\ last.ret = 0

----------------------------------------------------------------------------
(* Indices outside the record.                                             *)

\* The indices written in a string, in order: for HITS every number, for DETS
\* the numbers that follow a tag.  `prev` is the character before str, and
\* `open` tells that the last index of `done` is still being read.
RECURSIVE IndicesIn(_, _, _, _)
IndicesIn(str, done, open, prev) ==
    IF str = <<>> THEN done
    ELSE IF ~isdigit(str[1]) THEN IndicesIn(Tail(str), done, FALSE, str[1])
    ELSE IF open
    THEN IndicesIn(Tail(str), [done EXCEPT ![Len(done)] = @ * 10 + (str[1] - CH0)],
                   TRUE, str[1])
    ELSE IF isdigit(prev) \/ (fmt = "DETS" /\ prev \notin {CHM, CHD, CHL})
    THEN IndicesIn(Tail(str), done, FALSE, str[1])
    ELSE IndicesIn(Tail(str), Append(done, str[1] - CH0), TRUE, str[1])

\* The indices the reader has taken from the stream so far.
ParsedIndices == Elements(IndicesIn(SubSeq(input, 1, rd.off), <<>>, FALSE, NL))

\* C15: in the HITS and DETS readers the call that parses an index of
\* bits_per_record or more (for DETS, counted after the rebasing of a change of
\* tag) raises: no call returns with such an index pending, and a reader that
\* has raised nothing has taken no such index from the stream.
C15_IndexOutsideRecordRaises ==
    /\ (fmt = "HITS" /\ rd.next_hit >= bits_per_record) => last.err # NoError
    /\ (fmt = "DETS" /\ rd.next_shot >= bits_per_record) => last.err # NoError
    /\ (fmt \in {"HITS", "DETS"} /\ last.err = NoError)
       => \A v \in ParsedIndices : v < bits_per_record

\* read_bit() has parsed a D token after an M token and the rebased index is
\* outside the record, though the index written is inside it.
C15_Witness ==
    /\ fmt = "DETS" /\ last.op = "read_bit" /\ last.err = ShotOutside
    /\ rd.result_type = CHD /\ pre.result_type = CHM
    /\ rd.next_shot >= bits_per_record
    /\ \A v \in ParsedIndices : v < bits_per_record

----------------------------------------------------------------------------
(* RareErrorIterator.                                                      *)

InUnitInterval(p) == float_ge(p, Float(0)) /\ float_le(p, Float(10))

\* C16: successive calls of RareErrorIterator::next return strictly increasing
\* positions, the first at least 0; next_candidate is the last result plus 1;
\* with probability 1 the results are 0, 1, 2, ... without a gap; and the
\* constructor raises exactly for a probability outside [0, 1].
C16_IteratorIncreases ==
    /\ [](fmt = "none"
           => /\ last.op = "RareErrorIterator"
                 => /\ (last.err = InvalidProbability) = ~InUnitInterval(probability)
                    /\ last.err = NoError => it.next_candidate = 0
              /\ last.op = "next"
                 => (last.ret >= 0 /\ it.next_candidate = last.ret + 1))
    /\ [][IteratorNext
           => /\ last'.ret >= it.next_candidate
              /\ last.op = "next" => last'.ret >= last.ret + 1
              /\ float_eq(probability, Float(10)) => last'.ret = it.next_candidate]_vars

\* An iterator of probability 0.5 has returned position 5 or a later one.
C16_Witness ==
    /\ fmt = "none" /\ probability = Float(5)
    /\ last.op = "next" /\ last.ret >= 5
    /\ it.next_candidate = last.ret + 1

----------------------------------------------------------------------------
(* R8 decode.                                                              *)

\* The bits 0^z1 1 0^z2 1 ... 1 0^zk of the run lengths z1..zk.
RECURSIVE BitsOfRuns(_)
BitsOfRuns(runs) ==
    IF runs = <<>> THEN <<>>
    ELSE [j \in 1..Head(runs) |-> 0]
         \o (IF Len(runs) = 1 THEN <<>> ELSE <<1>> \o BitsOfRuns(Tail(runs)))

\* C17: on an R8 stream of run descriptors z1..zk, successive read_bit() calls
\* return 0^z1 1 0^z2 1 ... 1 0^zk truncated to bits_per_record (no 1 after
\* the last run), and a read_bit() past those bits with position below
\* bits_per_record fails with the end-of-stream error.
C17_R8Decode ==
    (fmt = "R8" /\ sent # <<>> /\ nexts = 0 /\ last.op = "read_bit")
    => LET expected == BitsOfRuns(sent) IN
       IF pre.position >= bits_per_record THEN last.err = EndOfRecord
       ELSE IF pre.position < Len(expected)
       THEN last.err = NoError /\ last.ret = expected[pre.position + 1]
       ELSE last.err = EndOfFile

\* Runs of 1, 0 and 2 zeros have been read as 0 1 1 0 0, and the next
\* read_bit() found the stream at its end.
C17_Witness ==
    /\ fmt = "R8" /\ sent = <<1, 0, 2>> /\ nexts = 0
    /\ last.op = "read_bit" /\ last.err = EndOfFile
    /\ pre.position = 5 /\ pre.position < bits_per_record

----------------------------------------------------------------------------
(* DETS result types.                                                      *)

RECURSIVE Flat(_)
Flat(recs) == IF recs = <<>> THEN <<>> ELSE Head(recs) \o Flat(Tail(recs))

\* The number of tokens among the first off characters of the stream.
TokensParsed(off) == Cardinality({i \in 1..off : input[i] \in {CHM, CHD, CHL}})

\* The pending index and the result type after the tokens toks are parsed with
\* the cursor at pos: a token of another tag counts from pos and changes the
\* result type, a token of the same tag is a position.
RECURSIVE Rebased(_, _, _)
Rebased(cur, pos, toks) ==
    IF toks = <<>> THEN cur
    ELSE Rebased([next_shot |-> toks[1][2]
                                + (IF toks[1][1] # cur.result_type THEN pos ELSE 0),
                  result_type |-> toks[1][1]],
                 pos, Tail(toks))

Pending(s) == [next_shot |-> s.next_shot, result_type |-> s.result_type]

\* C18: a token whose tag differs from result_type makes the pending index the
\* parsed index plus the cursor position at the moment of parsing, and its tag
\* the result type; a token of the same tag is an absolute position;
\* next_record() does not reset result_type.  Hence a record read bit by bit
\* holds a 1 at a and at a + 1 + b for "shot Ma Db".
C18_DetsRebasing ==
    /\ (fmt = "DETS" /\ sent # <<>> /\ last.err = NoError)
       => LET toks == SubSeq(Flat(sent), TokensParsed(pre.off) + 1, TokensParsed(rd.off))
          IN  IF last.op = "next_record" /\ last.ret = 1
              THEN /\ toks # <<>>
                   /\ Pending(rd)
                      = Rebased([next_shot |-> -1,
                                 result_type |->
                                     Rebased(Pending(pre), pre.position,
                                             SubSeq(toks, 1, Len(toks) - 1)).result_type],
                                0, <<toks[Len(toks)]>>)
              ELSE Pending(rd) = Rebased(Pending(pre), pre.position, toks)
    /\ (OnSentShot /\ sent # <<>> /\ last.op = "read_bit" /\ pre.position < bits_per_record)
       => /\ last.err = NoError
          /\ last.ret = Bool(pre.position \in Elements(ShotPositions(sent[rec + 1])))

\* "shot M1 D0 L2" with 6 bits: the reads at 1, at 2 = 1 + 1 + 0 and now at
\* 5 = 2 + 1 + 2 have returned true, and the result type is L.
C18_Witness ==
    /\ fmt = "DETS" /\ bits_per_record = 6
    /\ sent = << << <<CHM, 1>>, <<CHD, 0>>, <<CHL, 2>> >> >>
    /\ last.op = "read_bit" /\ last.err = NoError /\ last.ret = 1
    /\ pre.position = 5 /\ rd.next_shot = 5 /\ rd.result_type = CHL

\* "shot M0 D1" and "shot D1 M0": next_record() has returned false after the
\* second shot, and the result type is still the M of its last token.
C18_WitnessKept ==
    /\ fmt = "DETS" /\ Len(sent) = 2 /\ eos
    /\ last.op = "next_record" /\ last.err = NoError /\ last.ret = 0
    /\ rd.result_type = CHM /\ pre.result_type = CHM

----------------------------------------------------------------------------
(* The cursor.                                                             *)

\* C19: for every format, after any calls of read_bit, read_bytes,
\* is_end_of_record and next_record that raised no error,
\* 0 <= position <= bits_per_record; a read moves position by the number of
\* bits it returns, and next_record() sets it to 0.
C19_CursorInvariant ==
    (fmt # "none" /\ last.err = NoError)
    => /\ 0 <= rd.position /\ rd.position <= bits_per_record
       /\ last.op = "read_bit" => rd.position = pre.position + 1
       /\ last.op = "read_bytes" => rd.position = pre.position + last.ret
       /\ last.op = "is_end_of_record" => rd.position = pre.position
       /\ last.op = "next_record" => rd.position = 0

----------------------------------------------------------------------------
(* is_end_of_record() and the bits read.                                   *)

\* C20: for B8 and R8, an is_end_of_record() call changes neither the bits
\* the read_bit() calls after it return nor the call at which read_bit()
\* first fails, and a second is_end_of_record() right after it returns the
\* same value.
C20_EndOfRecordTransparent ==
    (fmt \in {"B8", "R8"} /\ last.op = "is_end_of_record")
    => /\ last.err = NoError
       /\ BitsByReadBit(rd, bits_per_record + 1) = BitsByReadBit(pre, bits_per_record + 1)
       /\ is_end_of_record(rd).err = NoError
       /\ is_end_of_record(rd).ret = last.ret

\* Between two reads, is_end_of_record() has taken a byte from the stream and
\* returned false.
C20_Witness ==
    /\ fmt \in {"B8", "R8"} /\ last.op = "is_end_of_record"
    /\ last.ret = 0 /\ rd.off > pre.off
    /\ nread > 0 /\ rd.position < bits_per_record
    /\ Len(BitsByReadBit(rd, bits_per_record + 1)) > 1

----------------------------------------------------------------------------
(* The bytes a call takes from the stream.                                 *)

\* C21: for 01, HITS and DETS, construction, read_bit, read_bytes and
\* is_end_of_record take no byte from the stream beyond the newline that ends
\* the current record, the record being empty or not: a call takes no byte
\* that follows a newline, be it a newline the call took itself or the last
\* byte taken before the call.
C21_NothingPastNewline ==
    (fmt \in {"01", "HITS", "DETS"}
     /\ last.op \in {"make", "read_bit", "read_bytes", "is_end_of_record"})
    => \A i \in 1..(rd.off - 1) : i >= pre.off => input[i] # NL

====
